---- MODULE Spec2Model ----
(***************************************************************************)
(* Model of the phuketer Telegram bot: the chunker split_safely, the LLM   *)
(* manager's backend selection, and the message handlers with their        *)
(* progress indicator (src/main.py, src/llm_manager.py, src/analytics.py). *)
(***************************************************************************)
EXTENDS Integers, Sequences, FiniteSets, TLC

\* the call of split_safely: its arguments and its result
VARIABLES text, max_length, parts

splitVars == <<text, max_length, parts>>

\* the LLM manager: its configuration and the call of get_response in progress
VARIABLES llm_cfg, llm_call, llm_pc, llm_fn, llm_depth, llm_in_try,
          llm_attempts, llm_searches, llm_result

llmVars == <<llm_cfg, llm_call, llm_pc, llm_fn, llm_depth, llm_in_try,
             llm_attempts, llm_searches, llm_result>>

\* the handlers, their progress indicators and what they share
VARIABLES
    pc,             \* per handler: the awaited call it is suspended in
    ev,             \* per handler: the message being handled
    recognized_text,\* per handler: "unset", "empty" or "text" (main.py:285)
    response_text,  \* per handler: "unset", "null" or "text" (main.py:294, 347)
    chunks,         \* per handler: [n, i, rejection], the parts of send_long_message, its
                    \* loop index and why Telegram refused the HTML reply of part i
    pending_exc,    \* per handler: an exception is propagating through finally
    escaped,        \* per handler: the invocation ended by raising
    stop_event,     \* per handler: the asyncio.Event of the progress indicator
    npc,            \* per handler: where its progress_notifier task is
    placeholder,    \* per handler: the progress message as Telegram holds it
    replies,        \* per handler: the replies Telegram delivered for the turn
    llm_calls,      \* per handler: calls of fetch_llm_response made in the turn
    user_history,   \* the dict user_history: chat key -> list of turns
    stats,          \* analytics.stats of the handlers' BotAnalytics instance
    stats_file,     \* the content of bot_stats.json
    audio,          \* per user: whose download voice_<user>.ogg holds, 0 if absent
    blocking,       \* the handler whose synchronous call occupies the loop, or 0
    events,         \* events received so far
    transport,      \* the connection to Telegram in this run: "reliable" or "flaky"
    in_flight_max,  \* handler invocations the dispatcher has in flight at once
    storage         \* the stats file in this run: "sound", or "faulty" when a
                    \* write can fail and the file found at start may lack the counters

turnVars == <<pc, ev, recognized_text, response_text, chunks, pending_exc, escaped,
              stop_event, npc, placeholder, replies, llm_calls, user_history,
              stats, stats_file, audio, blocking, events, transport, in_flight_max,
              storage>>

\* main and its heartbeat task
VARIABLES
    hb_url,         \* HEALTHCHECKS_PING_URL is set
    main_pc,        \* where main is
    main_exc,       \* an exception of main's body is propagating through its finally
    main_logged,    \* "Bot shutdown complete." was logged
    hb_pc,          \* where the heartbeat task is, "none" when it was not created
    hb_cancel,      \* hb_task.cancel() was called
    hb_log          \* what the heartbeat task did, in order

mainVars == <<hb_url, main_pc, main_exc, main_logged, hb_pc, hb_cancel, hb_log>>

vars == <<splitVars, llmVars, turnVars, mainVars>>

(***************************************************************************)
(* Part 1.  split_safely (src/main.py:77-118).  A text is a sequence of    *)
(* characters over a small alphabet: a letter, a sentence terminator, a    *)
(* blank and the line break.                                               *)
(***************************************************************************)

NL == "\n"

Letter == "a"

MaxLen == 7

MaxM == 3

\* the characters of the texts: a letter, one of [.!?], a blank, a line break
Alphabet == {Letter, ".", " ", NL}

\* [\.\!\?] of the sentence pattern, main.py:90
Punct == {".", "!", "?"}

\* \s of the sentence pattern and the characters str.strip() removes
IsSpace(c) == c \in {" ", NL}

\* s[from..] : Python slice s[from-1:]
Drop(s, n) == SubSeq(s, n + 1, Len(s))

\* s[:n]
Take(s, n) == SubSeq(s, 1, n)

\* the smallest index of the set S of indices, or 0 when there is none
FirstIndex(S) ==
    IF S = {} THEN 0 ELSE CHOOSE i \in S : \A j \in S : i <= j

\* text.split('\n'): the pieces between line breaks, empty pieces included
RECURSIVE SplitLines(_)
SplitLines(s) ==
    LET i == FirstIndex({k \in 1..Len(s) : s[k] = NL})
    IN  IF i = 0 THEN <<s>>
        ELSE <<Take(s, i - 1)>> \o SplitLines(Drop(s, i))

\* re.split(r'(?<=[\.\!\?])\s+', paragraph): cut at every run of white space
\* that directly follows a sentence terminator; the run itself is dropped
RECURSIVE SplitSentences(_)
SplitSentences(p) ==
    LET i == FirstIndex({k \in 2..Len(p) : p[k - 1] \in Punct /\ IsSpace(p[k])})
    IN  IF i = 0 THEN <<p>>
        ELSE LET j == FirstIndex({k \in (i + 1)..Len(p) : ~IsSpace(p[k])})
                 rest == IF j = 0 THEN <<>> ELSE Drop(p, j - 1)
             IN  <<Take(p, i - 1)>> \o SplitSentences(rest)

\* str.strip(): white space removed at both ends
Strip(s) ==
    LET a == FirstIndex({k \in 1..Len(s) : ~IsSpace(s[k])})
    IN  IF a = 0 THEN <<>>
        ELSE LET b == CHOOSE k \in a..Len(s) :
                          ~IsSpace(s[k]) /\ \A j \in (k + 1)..Len(s) : IsSpace(s[j])
             IN  SubSeq(s, a, b)

\* `if current: parts.append(current)`, main.py:95-96, 101-102, 109-110, 115-116
Flush(ps, current) == IF current # <<>> THEN Append(ps, current) ELSE ps

\* the hard-cut loop, main.py:94-99; st = [parts, current, sent]
RECURSIVE HardCut(_, _)
HardCut(st, m) ==
    IF Len(st.sent) > m
    THEN HardCut([parts   |-> Append(Flush(st.parts, st.current), Take(st.sent, m)),
                  current |-> IF st.current # <<>> THEN <<>> ELSE st.current,
                  sent    |-> Drop(st.sent, m)], m)
    ELSE st

\* the overflow test without the blank that joins the sentence to current
SentenceOverflowsNoSeparator(current, sent, m) == Len(current) + Len(sent) > m

\* the test of main.py:100
SentenceOverflows(current, sent, m) == Len(current) + Len(sent) + 1 > m

\* one iteration of the loop over sentences, main.py:91-105; st = [parts, current]
AddSentence(st, sent0, m) ==
    IF sent0 = <<>> THEN st
    ELSE LET c == HardCut([parts |-> st.parts, current |-> st.current, sent |-> sent0], m)
         IN  IF SentenceOverflows(c.current, c.sent, m)
             THEN [parts |-> Flush(c.parts, c.current), current |-> c.sent]
             ELSE [parts |-> c.parts, current |-> Strip(c.current \o <<" ">> \o c.sent)]

RECURSIVE AddSentences(_, _, _)
AddSentences(st, sents, m) ==
    IF sents = <<>> THEN st
    ELSE AddSentences(AddSentence(st, Head(sents), m), Tail(sents), m)

\* one iteration of the loop over paragraphs, main.py:88-113
AddParagraph(st, paragraph, m) ==
    IF Len(paragraph) > m
    THEN AddSentences(st, SplitSentences(paragraph), m)
    ELSE LET addition == IF st.current # <<>> THEN <<NL>> \o paragraph ELSE paragraph
         IN  IF Len(st.current) + Len(addition) > m
             THEN [parts |-> Flush(st.parts, st.current), current |-> paragraph]
             ELSE [parts |-> st.parts, current |-> st.current \o addition]

RECURSIVE AddParagraphs(_, _, _)
AddParagraphs(st, paras, m) ==
    IF paras = <<>> THEN st
    ELSE AddParagraphs(AddParagraph(st, Head(paras), m), Tail(paras), m)

\* split_safely(text, max_length), main.py:77-118
split_safely(s, m) ==
    IF Len(s) <= m THEN <<s>>
    ELSE LET st == AddParagraphs([parts |-> <<>>, current |-> <<>>], SplitLines(s), m)
         IN  Flush(st.parts, st.current)

InitSplit ==
    /\ text = <<>>
    /\ max_length \in 1..MaxM
    /\ parts = split_safely(<<>>, max_length)

\* the caller hands split_safely a text one character longer
SplitText(c) ==
    /\ Len(text) < MaxLen
    /\ text' = Append(text, c)
    /\ parts' = split_safely(text', max_length)
    /\ UNCHANGED <<max_length, llmVars, turnVars, mainVars>>

NextSplit == \E c \in Alphabet : SplitText(c)


(***************************************************************************)
(* Part 2.  LLMManager.get_response and the two backend methods            *)
(* (src/llm_manager.py:42-228).  One call of get_response is followed from *)
(* its dispatch to its return; the two methods call each other in tail     *)
(* position, so the call stack is its depth, the method running at the top *)
(* and whether a get_deepseek_response frame is waiting inside its try.    *)
(***************************************************************************)

\* the depth at which Python raises RecursionError
MaxDepth == 4

\* LLMManager.__init__, llm_manager.py:45-64: the keys that are configured.
\* The constructor raises when neither completion key is set.
Configs ==
    {c \in [deepseek_client : BOOLEAN, openai_key : BOOLEAN, google_search_client : BOOLEAN] :
        c.deepseek_client \/ c.openai_key}

ModelNames == {"deepseek", "openai", "other"}

\* the longest last user turn
MaxPrompt == 3

\* the characters of a user turn: the letters of a keyword in both cases and
\* a letter of no keyword
PromptAlphabet == {"k", "K", "w", "W", "x"}

Prompts == UNION {[1..n -> PromptAlphabet] : n \in 0..MaxPrompt}

\* search_keywords, llm_manager.py:141-145: lower-case words
SearchKeywords == {<<"k", "w">>}

\* str.lower(), llm_manager.py:146
Lower(c) == CASE c = "K" -> "k" [] c = "W" -> "w" [] OTHER -> c

LowerAll(s) == [i \in 1..Len(s) |-> Lower(s[i])]

\* `keyword in prompt_lower`: kw is a substring of s
Contains(s, kw) ==
    \E i \in 1..(Len(s) - Len(kw) + 1) : SubSeq(s, i, i + Len(kw) - 1) = kw

\* a test that compares the turn as it was typed
check_if_search_needed_as_typed(prompt) ==
    \E kw \in SearchKeywords : Contains(prompt, kw)

\* check_if_search_needed, llm_manager.py:137-147
check_if_search_needed(prompt) ==
    \E kw \in SearchKeywords : Contains(LowerAll(prompt), kw)

\* the arguments of one call: the model preference, the last user turn
\* (user_messages[-1]['content']) and whether user_id is non-zero
Calls == [model_name : ModelNames, prompt : Prompts, has_user_id : BOOLEAN]

InitLLM ==
    /\ llm_cfg \in Configs
    /\ llm_call \in Calls
    /\ llm_pc = "idle"
    /\ llm_fn = "none"
    /\ llm_depth = 0
    /\ llm_in_try = FALSE
    /\ llm_attempts = <<>>
    /\ llm_searches = [called |-> 0, tracked |-> 0, found |-> FALSE, in_prompt |-> FALSE]
    /\ llm_result = "pending"

\* the method get_response hands the call to, llm_manager.py:153-162
Dispatch(cfg, model_name) ==
    IF model_name = "openai" THEN "openai"
    ELSE IF cfg.deepseek_client THEN "deepseek" ELSE "openai"

\* get_response, llm_manager.py:149-162
get_response ==
    /\ llm_pc = "idle"
    /\ llm_fn' = Dispatch(llm_cfg, llm_call.model_name)
    /\ llm_pc' = "enter"
    /\ llm_depth' = 1
    /\ UNCHANGED <<llm_cfg, llm_call, llm_in_try, llm_attempts, llm_searches, llm_result>>
    /\ UNCHANGED <<splitVars, turnVars, mainVars>>

\* a nested call that would exceed the recursion limit raises RecursionError;
\* the innermost get_deepseek_response frame waiting in its try (llm_manager.py:122-135)
\* catches it and returns None; without such a frame it leaves get_response
CallNested(fn, in_try) ==
    IF llm_depth < MaxDepth
    THEN /\ llm_fn' = fn
         /\ llm_pc' = "enter"
         /\ llm_depth' = llm_depth + 1
         /\ llm_in_try' = in_try
         /\ UNCHANGED llm_result
    ELSE /\ llm_pc' = "returned"
         /\ llm_result' = IF in_try THEN "null" ELSE "raised"
         /\ UNCHANGED <<llm_fn, llm_depth, llm_in_try>>

\* the search block and the system prompt, llm_manager.py:79-120 and 174-216:
\* at most one search and one track_search per entry of a backend method; the
\* results, when there are any, are appended to the system prompt
SearchBlock ==
    IF check_if_search_needed(llm_call.prompt) /\ llm_cfg.google_search_client
    THEN \E found \in BOOLEAN :
            llm_searches' = [called    |-> llm_searches.called + 1,
                             tracked   |-> llm_searches.tracked + (IF llm_call.has_user_id THEN 1 ELSE 0),
                             found     |-> found,
                             in_prompt |-> found]
    ELSE llm_searches' = [llm_searches EXCEPT !.found = FALSE, !.in_prompt = FALSE]

\* get_deepseek_response up to its completion call, llm_manager.py:78-120
deepseek_enter ==
    /\ llm_pc = "enter" /\ llm_fn = "deepseek"
    /\ SearchBlock
    /\ llm_pc' = "complete"
    /\ UNCHANGED <<llm_cfg, llm_call, llm_fn, llm_depth, llm_in_try, llm_attempts, llm_result>>
    /\ UNCHANGED <<splitVars, turnVars, mainVars>>

\* the try block of get_deepseek_response, llm_manager.py:122-135
deepseek_complete ==
    /\ llm_pc = "complete" /\ llm_fn = "deepseek"
    /\ IF ~llm_cfg.deepseek_client
       THEN /\ CallNested("openai", TRUE)
            /\ UNCHANGED llm_attempts
       ELSE /\ llm_attempts' = Append(llm_attempts, "deepseek")
            /\ \E ok \in BOOLEAN : llm_result' = IF ok THEN "text" ELSE "null"
            /\ llm_pc' = "returned"
            /\ UNCHANGED <<llm_fn, llm_depth, llm_in_try>>
    /\ UNCHANGED <<llm_cfg, llm_call, llm_searches, splitVars, turnVars, mainVars>>

\* get_openai_response up to its completion call, llm_manager.py:164-216
openai_enter ==
    /\ llm_pc = "enter" /\ llm_fn = "openai"
    /\ IF ~llm_cfg.openai_key
       THEN /\ CallNested("deepseek", llm_in_try)
            /\ UNCHANGED llm_searches
       ELSE /\ SearchBlock
            /\ llm_pc' = "complete"
            /\ UNCHANGED <<llm_fn, llm_depth, llm_in_try, llm_result>>
    /\ UNCHANGED <<llm_cfg, llm_call, llm_attempts, splitVars, turnVars, mainVars>>

\* the try block of get_openai_response, llm_manager.py:218-228
openai_complete ==
    /\ llm_pc = "complete" /\ llm_fn = "openai"
    /\ llm_attempts' = Append(llm_attempts, "openai")
    /\ \/ /\ llm_result' = "text"
          /\ llm_pc' = "returned"
          /\ UNCHANGED <<llm_fn, llm_depth, llm_in_try>>
       \/ CallNested("deepseek", llm_in_try)
    /\ UNCHANGED <<llm_cfg, llm_call, llm_searches, splitVars, turnVars, mainVars>>

NextLLM ==
    \/ get_response
    \/ deepseek_enter
    \/ deepseek_complete
    \/ openai_enter
    \/ openai_complete


(***************************************************************************)
(* Part 3.  The message handlers of src/main.py with their progress        *)
(* indicator.  asyncio runs one task at a time and switches tasks only at  *)
(* an await that suspends, so an action is the piece of a coroutine from   *)
(* the completion of one awaited call to the start of the next one; pc     *)
(* names the call a handler is suspended in.  The synchronous calls of the *)
(* completion API and of the transcription API keep the event loop         *)
(* (blocking) until they return.                                           *)
(***************************************************************************)

\* handler invocations that can be in flight together
Handlers == {1, 2}

Users == {1, 2}

Chats == {1}

\* events received in one run
MaxEvents == 2

\* chunks split_safely can return for one response
MaxChunks == 2

\* the characters of the decimal digits
DigitChars == <<"0", "1", "2", "3", "4", "5", "6", "7", "8", "9">>

RECURSIVE Digits(_)
\* the decimal digits of a natural number, most significant first
Digits(n) ==
    IF n < 10 THEN <<DigitChars[n + 1]>>
    ELSE Digits(n \div 10) \o <<DigitChars[(n % 10) + 1]>>

\* how an f-string formats an int, as a sequence of characters
Str(n) == IF n < 0 THEN <<"-">> \o Digits(-n) ELSE Digits(n)

\* a key that joins the two ids without the separator
ChatKeyNoSeparator(user, chat) == Str(user) \o Str(chat)

\* chat_key = f"{user_id}_{chat.id}", main.py:227, 262, 330
ChatKey(user, chat) == Str(user) \o <<"_">> \o Str(chat)

\* ids the keys are compared on: user ids are positive, the chat id of a
\* group is negative, and some ids are prefixes of others
IdSample == {-11, -1, 1, 2, 11}

Keys == {ChatKey(u, c) : u \in Users, c \in Chats}

\* what a transport call can do: succeed, be rejected by Telegram
\* (TelegramBadRequest), or fail otherwise
Outcomes == {"ok", "bad_request", "error"}

NoEvent == [kind |-> "none", user |-> 0, chat |-> 0]

Turn(role, content) == [role |-> role, content |-> content]

Reply(kind, i, mode) == [kind |-> kind, i |-> i, mode |-> mode]

\* markers put on every chunk, whatever its place
MarkersOnEveryChunk(i, n) == [continuation |-> TRUE, more |-> TRUE]

\* the framing of part i of n, main.py:131-135: the continuation marker in
\* front of every part but the first, the "more follows" marker after every
\* part but the last
Markers(i, n) == [continuation |-> i > 1, more |-> i < n]

\* the message a reply of part i of n delivers; html_to_plain keeps both markers
ChunkReply(i, n, mode) ==
    [kind |-> "chunk", i |-> i, mode |-> mode,
     continuation |-> Markers(i, n).continuation, more |-> Markers(i, n).more]

\* what the steps of the handlers leave alone
others == <<splitVars, llmVars, mainVars, transport, in_flight_max, storage>>

\* the outcomes of a call to Telegram in this run
Outcome == IF transport = "flaky" THEN Outcomes ELSE {"ok"}

InFlight == {h \in Handlers : pc[h] \notin {"idle", "done"}}

\* user_history as the handlers read it: the turns of a key, none when absent
History(hist, key) == IF key \in DOMAIN hist THEN hist[key] ELSE <<>>

\* `if chat_key not in user_history: user_history[chat_key] = []`, main.py:274-275, 342-343
LazyCreate(hist, key) ==
    IF key \in DOMAIN hist THEN hist
    ELSE [k \in DOMAIN hist \cup {key} |-> IF k = key THEN <<>> ELSE hist[k]]

\* user_history[chat_key].append(turn), main.py:292, 301, 345, 354
AppendTurn(hist, key, turn) == [hist EXCEPT ![key] = Append(@, turn)]

\* user_history[chat_key] = [], main.py:228
ResetHistory(hist, key) ==
    [k \in DOMAIN hist \cup {key} |-> IF k = key THEN <<>> ELSE hist[k]]

\* BotAnalytics.track_user_message, analytics.py:44-94: the counters of the
\* long-lived instance, then _save_stats writes all of them to the file
TrackUserMessage(st, is_voice) ==
    [st EXCEPT !.total_messages = @ + 1,
               !.total_voice_messages = @ + (IF is_voice THEN 1 ELSE 0)]

\* BotAnalytics().track_search, llm_manager.py:93-95 and analytics.py:96-109:
\* a fresh instance loads the file, counts the search and saves
TrackSearch(file) == [file EXCEPT !.total_searches = @ + 1]

EmptyStats == [total_messages |-> 0, total_voice_messages |-> 0, total_searches |-> 0]

\* a bot_stats.json that holds a JSON object without the counters, as
\* _load_stats returns it unchecked, analytics.py:18-21
StatsWithoutCounters == [start_date |-> "set"]

\* the subscripts of track_user_message find their keys, analytics.py:50-52
HasCounters(st) == {"total_messages", "total_voice_messages"} \subseteq DOMAIN st

\* _save_stats, analytics.py:36-42: the file after the write, or the old file
\* when the write raised (the exception is caught and printed)
SaveStats(st, file) == IF storage = "faulty" THEN {st, file} ELSE {st}

InitTurn ==
    /\ pc = [h \in Handlers |-> "idle"]
    /\ ev = [h \in Handlers |-> NoEvent]
    /\ recognized_text = [h \in Handlers |-> "unset"]
    /\ response_text = [h \in Handlers |-> "unset"]
    /\ chunks = [h \in Handlers |-> [n |-> 0, i |-> 0, rejection |-> "none"]]
    /\ pending_exc = [h \in Handlers |-> FALSE]
    /\ escaped = [h \in Handlers |-> FALSE]
    /\ stop_event = [h \in Handlers |-> FALSE]
    /\ npc = [h \in Handlers |-> "none"]
    /\ placeholder = [h \in Handlers |-> "none"]
    /\ replies = [h \in Handlers |-> <<>>]
    /\ llm_calls = [h \in Handlers |-> 0]
    /\ user_history = <<>>
    /\ stats_file \in {EmptyStats, StatsWithoutCounters}
    /\ stats = stats_file
    /\ audio = [u \in Users |-> 0]
    /\ blocking = 0
    /\ events = 0
    /\ \/ transport = "flaky" /\ in_flight_max = 1 /\ storage = "sound"
       \/ transport = "reliable" /\ in_flight_max = Cardinality(Handlers)
             /\ storage = "sound"
       \/ transport = "reliable" /\ in_flight_max = 1 /\ storage = "faulty"
    /\ storage = "sound" => stats_file = EmptyStats

\* a free invocation slot; the lowest free one takes the next event
Free(h) ==
    /\ pc[h] \in {"idle", "done"}
    /\ \A g \in Handlers : g < h => pc[g] \notin {"idle", "done"}

\* handle_text_message and handle_voice_message up to the await of the
\* placeholder's send_message, main.py:256-269 and 323-337.  The call of
\* track_user_message stands before the try block: when its subscripts raise
\* KeyError the invocation ends by raising, before the placeholder is sent
Receive(h, kind, user, chat) ==
    /\ blocking = 0
    /\ events < MaxEvents
    /\ Free(h)
    /\ Cardinality(InFlight) < in_flight_max
    /\ events' = events + 1
    /\ ev' = [ev EXCEPT ![h] = [kind |-> kind, user |-> user, chat |-> chat]]
    /\ IF HasCounters(stats)
       THEN /\ stats' = TrackUserMessage(stats, kind = "voice")
            /\ stats_file' \in SaveStats(stats', stats_file)
            /\ pc' = [pc EXCEPT ![h] = "send_placeholder"]
            /\ escaped' = [escaped EXCEPT ![h] = FALSE]
       ELSE /\ UNCHANGED <<stats, stats_file>>
            /\ pc' = [pc EXCEPT ![h] = "done"]
            /\ escaped' = [escaped EXCEPT ![h] = TRUE]
    /\ recognized_text' = [recognized_text EXCEPT ![h] = "unset"]
    /\ response_text' = [response_text EXCEPT ![h] = "unset"]
    /\ chunks' = [chunks EXCEPT ![h] = [n |-> 0, i |-> 0, rejection |-> "none"]]
    /\ pending_exc' = [pending_exc EXCEPT ![h] = FALSE]
    /\ stop_event' = [stop_event EXCEPT ![h] = FALSE]
    /\ npc' = [npc EXCEPT ![h] = "none"]
    /\ placeholder' = [placeholder EXCEPT ![h] = "none"]
    /\ replies' = [replies EXCEPT ![h] = <<>>]
    /\ llm_calls' = [llm_calls EXCEPT ![h] = 0]
    /\ UNCHANGED <<user_history, audio, blocking, others>>

handle_text_message(h) ==
    \E u \in Users, c \in Chats : Receive(h, "text", u, c)

handle_voice_message(h) ==
    \E u \in Users, c \in Chats : Receive(h, "voice", u, c)

\* send_welcome, main.py:224-241: the history of the key is reset
send_welcome(user, chat) ==
    /\ blocking = 0
    /\ events < MaxEvents
    /\ events' = events + 1
    /\ user_history' = ResetHistory(user_history, ChatKey(user, chat))
    /\ UNCHANGED <<pc, ev, recognized_text, response_text, chunks, pending_exc, escaped,
                   stop_event, npc, placeholder, replies, llm_calls, stats, stats_file,
                   audio, blocking, others>>

Key(h) == ChatKey(ev[h].user, ev[h].chat)

\* ---- control flow shared by the two handlers ----

Goto(h, label) ==
    /\ pc' = [pc EXCEPT ![h] = label]
    /\ UNCHANGED <<chunks, stop_event, pending_exc, escaped>>

\* the finally block up to `await progress_task`, main.py:311-313 and 364-366;
\* exc: an exception raised in the except block is propagating
Teardown(h, exc) ==
    /\ stop_event' = [stop_event EXCEPT ![h] = TRUE]
    /\ pc' = [pc EXCEPT ![h] = "await_notifier"]
    /\ pending_exc' = [pending_exc EXCEPT ![h] = exc]
    /\ UNCHANGED <<chunks, escaped>>

\* the except block up to the await of the apology, main.py:308-310 and 361-363
Apology(h) == Goto(h, "reply_apology")

\* the loop of send_long_message at part i of n, main.py:130-141: the next
\* part is replied with parse_mode HTML; after the last one the handler
\* reaches its finally block
SendPart(h, n, i) ==
    /\ chunks' = [chunks EXCEPT ![h] = [n |-> n, i |-> i, rejection |-> "none"]]
    /\ IF i <= n
       THEN /\ pc' = [pc EXCEPT ![h] = "reply_html"]
            /\ UNCHANGED <<stop_event, pending_exc>>
       ELSE /\ pc' = [pc EXCEPT ![h] = "await_notifier"]
            /\ stop_event' = [stop_event EXCEPT ![h] = TRUE]
            /\ pending_exc' = [pending_exc EXCEPT ![h] = FALSE]
    /\ UNCHANGED escaped

\* fetch_llm_response up to its first suspension, main.py:145-150 and
\* llm_manager.py:78-132: with a freshness keyword and a search client the
\* search is recorded and awaited; otherwise the synchronous completion call
\* starts at once and keeps the event loop
fetch_llm_response(h) ==
    /\ llm_calls' = [llm_calls EXCEPT ![h] = @ + 1]
    /\ \E search \in BOOLEAN :
          IF search
          THEN /\ stats_file' \in SaveStats(TrackSearch(stats_file), stats_file)
               /\ blocking' = 0
               /\ Goto(h, "llm_search")
          ELSE /\ blocking' = h
               /\ Goto(h, "llm_complete")
               /\ UNCHANGED stats_file

\* the history after the placeholder was sent, main.py:274-275 and 342-345
HistoryAtStart(hist, kind, key) ==
    IF kind = "text"
    THEN AppendTurn(LazyCreate(hist, key), key, Turn("user", "text"))
    ELSE LazyCreate(hist, key)

\* `progress_msg = await bot.send_message(...)` returns or raises, main.py:269-277
\* and 337-351.  It is awaited before the try: a failure leaves the handler.
placeholder_sent(h, o) ==
    /\ blocking = 0
    /\ pc[h] = "send_placeholder"
    /\ IF o = "ok"
       THEN /\ placeholder' = [placeholder EXCEPT ![h] = "frame"]
            /\ npc' = [npc EXCEPT ![h] = "created"]
            /\ user_history' = HistoryAtStart(user_history, ev[h].kind, Key(h))
            /\ IF ev[h].kind = "text"
               THEN fetch_llm_response(h)
               ELSE /\ Goto(h, "get_file")
                    /\ UNCHANGED <<llm_calls, stats_file, blocking>>
       ELSE /\ pc' = [pc EXCEPT ![h] = "done"]
            /\ escaped' = [escaped EXCEPT ![h] = TRUE]
            /\ UNCHANGED <<chunks, stop_event, pending_exc, placeholder, npc,
                           user_history, llm_calls, stats_file, blocking>>
    /\ UNCHANGED <<ev, recognized_text, response_text, replies, stats, audio, events, others>>

\* `await self.google_search_client.search(...)` returns (GoogleSearch.search
\* swallows its errors, llm_manager.py:23-40); the completion call follows
search_done(h) ==
    /\ blocking = 0
    /\ pc[h] = "llm_search"
    /\ blocking' = h
    /\ Goto(h, "llm_complete")
    /\ UNCHANGED <<ev, recognized_text, response_text, npc, placeholder, replies,
                   llm_calls, user_history, stats, stats_file, audio, events, others>>

\* the history after fetch_llm_response returned, main.py:300-301 and 353-354
HistoryAfterAnswer(hist, key, response) ==
    IF response = "text" THEN AppendTurn(hist, key, Turn("assistant", "answer")) ELSE hist

\* fetch_llm_response returns a text or None, or raises, main.py:294-304 and
\* 347-357; n is the number of parts split_safely makes of the text
llm_done(h, result, n) ==
    /\ blocking = h
    /\ pc[h] = "llm_complete"
    /\ blocking' = 0
    /\ IF result = "raise"
       THEN /\ Apology(h)
            /\ UNCHANGED <<response_text, user_history>>
       ELSE /\ response_text' = [response_text EXCEPT ![h] = result]
            /\ user_history' = HistoryAfterAnswer(user_history, Key(h), result)
            /\ IF result = "text"
               THEN SendPart(h, n, 1)
               ELSE Goto(h, "edit_failure")
    /\ UNCHANGED <<ev, recognized_text, npc, placeholder, replies, llm_calls,
                   stats, stats_file, audio, events, others>>

\* what a TelegramBadRequest can be about: the markup of the text ("can't
\* parse entities"), or something else in the request (the message replied to
\* is gone, the text is too long)
Rejections == {"markup", "request"}

\* a handler that resends as plain text after any failure
FallsBackOnAnyFailure(o) == o # "ok"

\* `except TelegramBadRequest`, main.py:139
FallsBack(o) == o = "bad_request"

\* message.reply(out, parse_mode='HTML') of part i returns or raises,
\* main.py:137-141: a TelegramBadRequest leads to the plain-text resend of
\* that part, any other failure leaves send_long_message
reply_html_done(h, o) ==
    /\ blocking = 0
    /\ pc[h] = "reply_html"
    /\ CASE o = "ok" ->
              /\ replies' = [replies EXCEPT ![h] = Append(@, ChunkReply(chunks[h].i, chunks[h].n, "HTML"))]
              /\ SendPart(h, chunks[h].n, chunks[h].i + 1)
         [] o # "ok" /\ FallsBack(o) ->
              /\ \E why \in Rejections :
                    chunks' = [chunks EXCEPT ![h].rejection =
                                  IF o = "bad_request" THEN why ELSE "error"]
              /\ pc' = [pc EXCEPT ![h] = "reply_plain"]
              /\ UNCHANGED <<replies, stop_event, pending_exc, escaped>>
         [] OTHER ->
              /\ Apology(h)
              /\ UNCHANGED replies
    /\ UNCHANGED <<ev, recognized_text, response_text, npc, placeholder, llm_calls,
                   user_history, stats, stats_file, audio, blocking, events, others>>

\* message.reply(plain) of part i returns or raises, main.py:140-141
reply_plain_done(h, o) ==
    /\ blocking = 0
    /\ pc[h] = "reply_plain"
    /\ IF o = "ok"
       THEN /\ replies' = [replies EXCEPT ![h] = Append(@, ChunkReply(chunks[h].i, chunks[h].n, "plain"))]
            /\ SendPart(h, chunks[h].n, chunks[h].i + 1)
       ELSE /\ Apology(h)
            /\ UNCHANGED replies
    /\ UNCHANGED <<ev, recognized_text, response_text, npc, placeholder, llm_calls,
                   user_history, stats, stats_file, audio, blocking, events, others>>

\* an edit of the progress message that Telegram applied
Edited(ph, content) == IF ph = "deleted" THEN ph ELSE content

\* progress_msg.edit_text(failure message) returns or raises, main.py:304, 357
edit_failure_done(h, o) ==
    /\ blocking = 0
    /\ pc[h] = "edit_failure"
    /\ IF o = "ok"
       THEN /\ placeholder' = [placeholder EXCEPT ![h] = Edited(@, "failure")]
            /\ Teardown(h, FALSE)
       ELSE /\ Apology(h)
            /\ UNCHANGED placeholder
    /\ UNCHANGED <<ev, recognized_text, response_text, npc, replies, llm_calls,
                   user_history, stats, stats_file, audio, blocking, events, others>>

\* message.reply(apology) returns or raises, main.py:310, 363; its failure
\* propagates through the finally block
reply_apology_done(h, o) ==
    /\ blocking = 0
    /\ pc[h] = "reply_apology"
    /\ replies' = [replies EXCEPT ![h] =
                      IF o = "ok" THEN Append(@, Reply("apology", 0, "plain")) ELSE @]
    /\ Teardown(h, o # "ok")
    /\ UNCHANGED <<ev, recognized_text, response_text, npc, placeholder, llm_calls,
                   user_history, stats, stats_file, audio, blocking, events, others>>

\* a teardown that does not wait for the notifier
TaskDoneOrNot(task) == TRUE

\* what `await progress_task` waits for, main.py:313, 366
TaskDone(task) == task = "done"

\* `await progress_task` returns once the notifier has exited, main.py:313, 366;
\* delete_message is awaited next
notifier_joined(h) ==
    /\ blocking = 0
    /\ pc[h] = "await_notifier"
    /\ TaskDone(npc[h])
    /\ Goto(h, "delete_placeholder")
    /\ UNCHANGED <<ev, recognized_text, response_text, npc, placeholder, replies,
                   llm_calls, user_history, stats, stats_file, audio, blocking, events, others>>

\* the handler returns, or the pending exception leaves it
Finish(h) ==
    /\ pc' = [pc EXCEPT ![h] = "done"]
    /\ escaped' = [escaped EXCEPT ![h] = pending_exc[h]]
    /\ UNCHANGED <<chunks, stop_event, pending_exc>>

\* bot.delete_message returns or raises, main.py:314-318 and 367-371
delete_done(h, o) ==
    /\ blocking = 0
    /\ pc[h] = "delete_placeholder"
    /\ IF o = "ok"
       THEN /\ placeholder' = [placeholder EXCEPT ![h] = "deleted"]
            /\ Finish(h)
       ELSE /\ Goto(h, "edit_done")
            /\ UNCHANGED placeholder
    /\ UNCHANGED <<ev, recognized_text, response_text, npc, replies, llm_calls,
                   user_history, stats, stats_file, audio, blocking, events, others>>

\* progress_msg.edit_text(done marker) returns or raises, main.py:317-320, 370-373
edit_done_done(h, o) ==
    /\ blocking = 0
    /\ pc[h] = "edit_done"
    /\ placeholder' = [placeholder EXCEPT ![h] = IF o = "ok" THEN Edited(@, "done") ELSE @]
    /\ Finish(h)
    /\ UNCHANGED <<ev, recognized_text, response_text, npc, replies, llm_calls,
                   user_history, stats, stats_file, audio, blocking, events, others>>

\* ---- the voice handler's own steps ----

\* bot.get_file returns (with or without a file_path) or raises, main.py:277-283
get_file_done(h, o, has_path) ==
    /\ blocking = 0
    /\ pc[h] = "get_file"
    /\ IF o # "ok" THEN Apology(h)
       ELSE IF has_path THEN Goto(h, "download") ELSE Goto(h, "reply_no_voice")
    /\ UNCHANGED <<ev, recognized_text, response_text, npc, placeholder, replies,
                   llm_calls, user_history, stats, stats_file, audio, blocking, events, others>>

\* message.reply("could not get the voice message") returns or raises, main.py:279-280
reply_no_voice_done(h, o) ==
    /\ blocking = 0
    /\ pc[h] = "reply_no_voice"
    /\ IF o = "ok"
       THEN /\ replies' = [replies EXCEPT ![h] = Append(@, Reply("no_voice", 0, "plain"))]
            /\ Teardown(h, FALSE)
       ELSE /\ Apology(h)
            /\ UNCHANGED replies
    /\ UNCHANGED <<ev, recognized_text, response_text, npc, placeholder, llm_calls,
                   user_history, stats, stats_file, audio, blocking, events, others>>

\* bot.download_file got its response and opened voice_<user_id>.ogg for
\* writing, or failed before that, main.py:282-283
download_open(h, o) ==
    /\ blocking = 0
    /\ pc[h] = "download"
    /\ IF o = "ok"
       THEN /\ audio' = [audio EXCEPT ![ev[h].user] = h]
            /\ Goto(h, "download_write")
       ELSE /\ Apology(h)
            /\ UNCHANGED audio
    /\ UNCHANGED <<ev, recognized_text, response_text, npc, placeholder, replies,
                   llm_calls, user_history, stats, stats_file, blocking, events, others>>

\* bot.download_file returns or raises; the synchronous transcribe_audio call
\* follows, main.py:283-285
download_done(h, o) ==
    /\ pc[h] = "download_write"
    /\ blocking = 0
    /\ IF o = "ok"
       THEN /\ blocking' = h
            /\ Goto(h, "transcribe")
       ELSE /\ Apology(h)
            /\ UNCHANGED blocking
    /\ UNCHANGED <<ev, recognized_text, response_text, npc, placeholder, replies,
                   llm_calls, user_history, stats, stats_file, audio, events, others>>

\* the user turn appended without the test of the transcript
HistoryAfterTranscriptAlways(hist, key, recognized) ==
    AppendTurn(hist, key, Turn("user", "voice"))

\* the history after transcription, main.py:288-292
HistoryAfterTranscript(hist, key, recognized) ==
    IF recognized = "text" THEN AppendTurn(hist, key, Turn("user", "voice")) ELSE hist

\* transcribe_audio returns the text or "" (no key, a failure, a missing
\* file: llm_manager.py:230-253), then os.remove and the test of the text,
\* main.py:285-298; os.remove raises when the file is gone
transcribe_done(h, recognized) ==
    /\ blocking = h
    /\ pc[h] = "transcribe"
    /\ IF audio[ev[h].user] = 0
       THEN /\ recognized_text' = [recognized_text EXCEPT ![h] = "empty"]
            /\ blocking' = 0
            /\ Apology(h)
            /\ UNCHANGED <<audio, user_history, llm_calls, stats_file>>
       ELSE /\ recognized_text' = [recognized_text EXCEPT ![h] = recognized]
            /\ audio' = [audio EXCEPT ![ev[h].user] = 0]
            /\ user_history' = HistoryAfterTranscript(user_history, Key(h), recognized)
            /\ IF recognized = "text"
               THEN fetch_llm_response(h)
               ELSE /\ blocking' = 0
                    /\ Goto(h, "reply_not_understood")
                    /\ UNCHANGED <<llm_calls, stats_file>>
    /\ UNCHANGED <<ev, response_text, npc, placeholder, replies, stats, events, others>>

\* message.reply("could not understand") returns or raises, main.py:288-290
reply_not_understood_done(h, o) ==
    /\ blocking = 0
    /\ pc[h] = "reply_not_understood"
    /\ IF o = "ok"
       THEN /\ replies' = [replies EXCEPT ![h] = Append(@, Reply("not_understood", 0, "plain"))]
            /\ Teardown(h, FALSE)
       ELSE /\ Apology(h)
            /\ UNCHANGED replies
    /\ UNCHANGED <<ev, recognized_text, response_text, npc, placeholder, llm_calls,
                   user_history, stats, stats_file, audio, blocking, events, others>>

\* ---- progress_notifier, main.py:154-169 ----

\* a loop that never looks at the stop signal
KeepsRunningIgnoringStop(stop) == TRUE

\* the loop test, main.py:161
KeepsRunning(stop) == ~stop

\* the task is in asyncio.sleep(1), main.py:168; the second value records that
\* the edit before the sleep had raised
Sleeping == {"sleeping", "sleeping_after_error"}

\* a loop that a failed edit ends
AfterEditFailureEnds(o) == IF o = "ok" THEN "sleeping" ELSE "done"

\* what follows the edit of a frame, main.py:162-168: `except Exception: pass`
\* swallows a failure and the task sleeps
AfterEdit(o) == IF o = "ok" THEN "sleeping" ELSE "sleeping_after_error"

\* the task starts, or wakes from asyncio.sleep(1): the loop test, then the
\* edit of the next frame is awaited or the task exits
notifier_run(h) ==
    /\ blocking = 0
    /\ npc[h] \in {"created"} \cup Sleeping
    /\ npc' = [npc EXCEPT ![h] = IF KeepsRunning(stop_event[h]) THEN "editing" ELSE "done"]
    /\ UNCHANGED <<pc, ev, recognized_text, response_text, chunks, pending_exc, escaped,
                   stop_event, placeholder, replies, llm_calls, user_history,
                   stats, stats_file, audio, blocking, events, others>>

\* bot.edit_message_text(frame) returns or raises; a failure is swallowed and
\* the task sleeps, main.py:162-167
notifier_edit_done(h, o) ==
    /\ blocking = 0
    /\ npc[h] = "editing"
    /\ placeholder' = [placeholder EXCEPT ![h] = IF o = "ok" THEN Edited(@, "frame") ELSE @]
    /\ npc' = [npc EXCEPT ![h] = AfterEdit(o)]
    /\ UNCHANGED <<pc, ev, recognized_text, response_text, chunks, pending_exc, escaped,
                   stop_event, replies, llm_calls, user_history,
                   stats, stats_file, audio, blocking, events, others>>

NextTurn ==
    \/ \E h \in Handlers : handle_text_message(h)
    \/ \E h \in Handlers : handle_voice_message(h)
    \/ \E u \in Users, c \in Chats : send_welcome(u, c)
    \/ \E h \in Handlers, o \in Outcome : placeholder_sent(h, o)
    \/ \E h \in Handlers : search_done(h)
    \/ \E h \in Handlers, r \in {"text", "null", "raise"}, n \in 0..MaxChunks : llm_done(h, r, n)
    \/ \E h \in Handlers, o \in Outcome : reply_html_done(h, o)
    \/ \E h \in Handlers, o \in Outcome : reply_plain_done(h, o)
    \/ \E h \in Handlers, o \in Outcome : edit_failure_done(h, o)
    \/ \E h \in Handlers, o \in Outcome : reply_apology_done(h, o)
    \/ \E h \in Handlers : notifier_joined(h)
    \/ \E h \in Handlers, o \in Outcome : delete_done(h, o)
    \/ \E h \in Handlers, o \in Outcome : edit_done_done(h, o)
    \/ \E h \in Handlers, o \in Outcome, p \in BOOLEAN : get_file_done(h, o, p)
    \/ \E h \in Handlers, o \in Outcome : reply_no_voice_done(h, o)
    \/ \E h \in Handlers, o \in Outcome : download_open(h, o)
    \/ \E h \in Handlers, o \in Outcome : download_done(h, o)
    \/ \E h \in Handlers, t \in {"text", "empty"} : transcribe_done(h, t)
    \/ \E h \in Handlers, o \in Outcome : reply_not_understood_done(h, o)
    \/ \E h \in Handlers : notifier_run(h)
    \/ \E h \in Handlers, o \in Outcome : notifier_edit_done(h, o)

(***************************************************************************)
(* Part 4.  main and heartbeat_task (src/main.py:173-196 and 375-391).     *)
(* hb_log records what the heartbeat task did: "start" and "ping" when a   *)
(* request is sent, "start_ok", "start_fail", "ping_ok", "ping_fail" when  *)
(* it returned or raised, "sleep" when the interval sleep begins.          *)
(***************************************************************************)

\* regular signals sent in one run
MaxBeats == 2

InitMain ==
    /\ hb_url \in BOOLEAN
    /\ main_pc = "start"
    /\ main_exc = FALSE
    /\ main_logged = FALSE
    /\ hb_pc = "none"
    /\ hb_cancel = FALSE
    /\ hb_log = <<>>

\* main up to `await bot.delete_webhook(...)`, main.py:375-383
main_start ==
    /\ main_pc = "start"
    /\ hb_pc' = IF hb_url THEN "created" ELSE "none"
    /\ main_pc' = "delete_webhook"
    /\ UNCHANGED <<hb_url, main_exc, main_logged, hb_cancel, hb_log>>
    /\ UNCHANGED <<splitVars, llmVars, turnVars>>

\* the finally block of main up to `await hb_task`, main.py:386-391; without a
\* heartbeat task the shutdown is logged and main ends
MainFinally(exc) ==
    IF hb_pc # "none"
    THEN /\ hb_cancel' = TRUE
         /\ main_pc' = "await_hb"
         /\ main_exc' = exc
         /\ UNCHANGED main_logged
    ELSE /\ main_logged' = TRUE
         /\ main_pc' = IF exc THEN "raised" ELSE "complete"
         /\ main_exc' = exc
         /\ UNCHANGED hb_cancel

\* delete_webhook returns or raises, main.py:383-385
delete_webhook_done(ok) ==
    /\ blocking = 0
    /\ main_pc = "delete_webhook"
    /\ IF ok
       THEN /\ main_pc' = "polling"
            /\ UNCHANGED <<main_exc, main_logged, hb_cancel>>
       ELSE MainFinally(TRUE)
    /\ UNCHANGED <<hb_url, hb_pc, hb_log>>
    /\ UNCHANGED <<splitVars, llmVars, turnVars>>

\* dp.start_polling returns (the bot was stopped) or raises, main.py:385-388
polling_done(ok) ==
    /\ blocking = 0
    /\ main_pc = "polling"
    /\ MainFinally(~ok)
    /\ UNCHANGED <<hb_url, hb_pc, hb_log>>
    /\ UNCHANGED <<splitVars, llmVars, turnVars>>

\* `with contextlib.suppress(Exception): await hb_task`, main.py:389-390:
\* awaiting a cancelled task raises CancelledError, which is a BaseException
\* and no Exception, so it leaves the with block and main
Join(task) == IF task = "cancelled" THEN "cancelled_error" ELSE "shutdown"

\* `await hb_task` returns or raises once the task has ended, main.py:389-391
main_join ==
    /\ blocking = 0
    /\ main_pc = "await_hb"
    /\ hb_pc \in {"cancelled", "returned"}
    /\ IF Join(hb_pc) = "shutdown"
       THEN /\ main_logged' = TRUE
            /\ main_pc' = IF main_exc THEN "raised" ELSE "complete"
       ELSE /\ main_pc' = "raised_cancelled"
            /\ UNCHANGED main_logged
    /\ UNCHANGED <<hb_url, main_exc, hb_pc, hb_cancel, hb_log>>
    /\ UNCHANGED <<splitVars, llmVars, turnVars>>

\* the task's first step, main.py:179-187: without a URL it returns, else it
\* opens the session and sends the start signal
hb_begin ==
    /\ blocking = 0
    /\ hb_pc = "created"
    /\ ~hb_cancel
    /\ IF hb_url
       THEN /\ hb_pc' = "start_ping"
            /\ hb_log' = Append(hb_log, "start")
       ELSE /\ hb_pc' = "returned"
            /\ UNCHANGED hb_log
    /\ UNCHANGED <<hb_url, main_pc, main_exc, main_logged, hb_cancel>>
    /\ UNCHANGED <<splitVars, llmVars, turnVars>>

\* the start signal returned or raised (suppressed), main.py:186-191; the
\* first regular signal is sent at once
hb_start_done(ok) ==
    /\ blocking = 0
    /\ hb_pc = "start_ping"
    /\ ~hb_cancel
    /\ hb_log' = hb_log \o <<IF ok THEN "start_ok" ELSE "start_fail", "ping">>
    /\ hb_pc' = "ping"
    /\ UNCHANGED <<hb_url, main_pc, main_exc, main_logged, hb_cancel>>
    /\ UNCHANGED <<splitVars, llmVars, turnVars>>

\* a loop that a failed signal ends
AfterAttemptStopOnFailure(ok) == IF ok THEN "sleep" ELSE "returned"

\* what follows a regular signal, main.py:190-196: the interval sleep, whether
\* the signal returned or raised
AfterAttempt(ok) == "sleep"

\* a regular signal returned or raised, main.py:190-196
hb_ping_done(ok) ==
    /\ blocking = 0
    /\ hb_pc = "ping"
    /\ ~hb_cancel
    /\ hb_pc' = AfterAttempt(ok)
    /\ hb_log' = hb_log \o <<IF ok THEN "ping_ok" ELSE "ping_fail">>
                        \o (IF hb_pc' = "sleep" THEN <<"sleep">> ELSE <<>>)
    /\ UNCHANGED <<hb_url, main_pc, main_exc, main_logged, hb_cancel>>
    /\ UNCHANGED <<splitVars, llmVars, turnVars>>

\* regular signals sent so far
Beats == Cardinality({j \in 1..Len(hb_log) : hb_log[j] = "ping"})

\* asyncio.sleep(HEARTBEAT_INTERVAL_SEC) ends and the next signal is sent,
\* main.py:189-196
hb_wake ==
    /\ blocking = 0
    /\ hb_pc = "sleep"
    /\ ~hb_cancel
    /\ Beats < MaxBeats
    /\ hb_pc' = "ping"
    /\ hb_log' = Append(hb_log, "ping")
    /\ UNCHANGED <<hb_url, main_pc, main_exc, main_logged, hb_cancel>>
    /\ UNCHANGED <<splitVars, llmVars, turnVars>>

\* the cancelled task runs next: CancelledError is raised at the await it is
\* suspended in (or before its first step); neither `except Exception` nor
\* suppress(Exception) catches it, main.py:186-196, and the task ends cancelled
hb_cancelled ==
    /\ blocking = 0
    /\ hb_cancel
    /\ hb_pc \in {"created", "start_ping", "ping", "sleep"}
    /\ hb_pc' = "cancelled"
    /\ UNCHANGED <<hb_url, main_pc, main_exc, main_logged, hb_cancel, hb_log>>
    /\ UNCHANGED <<splitVars, llmVars, turnVars>>

NextMain ==
    \/ main_start
    \/ \E ok \in BOOLEAN : delete_webhook_done(ok)
    \/ \E ok \in BOOLEAN : polling_done(ok)
    \/ main_join
    \/ hb_begin
    \/ \E ok \in BOOLEAN : hb_start_done(ok)
    \/ \E ok \in BOOLEAN : hb_ping_done(ok)
    \/ hb_wake
    \/ hb_cancelled


\* ---- the specifications; each leaves the other parts at rest ----

SplitAtRest == text = <<>> /\ max_length = 1 /\ parts = <<<<>>>>

LLMAtRest ==
    /\ llm_cfg = [deepseek_client |-> TRUE, openai_key |-> TRUE, google_search_client |-> TRUE]
    /\ llm_call = [model_name |-> "deepseek", prompt |-> <<>>, has_user_id |-> TRUE]
    /\ llm_pc = "idle"
    /\ llm_fn = "none"
    /\ llm_depth = 0
    /\ llm_in_try = FALSE
    /\ llm_attempts = <<>>
    /\ llm_searches = [called |-> 0, tracked |-> 0, found |-> FALSE, in_prompt |-> FALSE]
    /\ llm_result = "pending"

TurnAtRest == InitTurn /\ transport = "reliable" /\ storage = "sound"

MainAtRest == InitMain /\ ~hb_url

Init == InitTurn /\ SplitAtRest /\ LLMAtRest /\ MainAtRest

Next == NextTurn

Spec == Init /\ [][Next]_vars

SplitSpecInit == InitSplit /\ TurnAtRest /\ LLMAtRest /\ MainAtRest

SplitSpec == SplitSpecInit /\ [][NextSplit]_vars

LLMSpecInit == InitLLM /\ TurnAtRest /\ SplitAtRest /\ MainAtRest

LLMSpec == LLMSpecInit /\ [][NextLLM]_vars

MainSpecInit == InitMain /\ TurnAtRest /\ SplitAtRest /\ LLMAtRest

MainSpec == MainSpecInit /\ [][NextMain]_vars

\* the scheduling of asyncio: a task that is ready runs, a sleep ends, and
\* the synchronous API calls return or raise (the clients have timeouts)
FairSpec ==
    /\ Spec
    /\ \A h \in Handlers :
          /\ WF_vars(notifier_run(h))
          /\ WF_vars(\E o \in Outcome : notifier_edit_done(h, o))
          /\ WF_vars(\E r \in {"text", "null", "raise"}, n \in 0..MaxChunks : llm_done(h, r, n))
          /\ WF_vars(\E t \in {"text", "empty"} : transcribe_done(h, t))

(***************************************************************************)
(* The claims.                                                             *)
(***************************************************************************)

Range(s) == {s[i] : i \in 1..Len(s)}

\* the progress indicator of h's turn was started
Started(h) == npc[h] # "none"

\* the kinds of terminal response of h's turn that the chat shows: the
\* replies delivered, and the failure message while the progress message holds it
ResponsesVisible(h) ==
    {r.kind : r \in Range(replies[h])}
        \cup (IF placeholder[h] = "failure" THEN {"failure"} ELSE {})

\* C1: when a handler has finished, the chat shows exactly one terminal
\* response of the turn (the answer, "could not understand", "could not get
\* an answer" or the apology), never none and never two.
C1_ExactlyOneTerminalResponse ==
    \A h \in Handlers : pc[h] = "done" => Cardinality(ResponsesVisible(h)) = 1

\* C2: when the LLM returned None, then once the handler has finished the
\* history of the key ends with the user's turn (no assistant turn was
\* added) and the user has the fixed failure message.
C2_NullKeepsUserTurnAndShowsFailure ==
    \A h \in Handlers :
        (pc[h] = "done" /\ response_text[h] = "null") =>
            /\ History(user_history, Key(h)) # <<>>
            /\ History(user_history, Key(h))[Len(History(user_history, Key(h)))].role = "user"
            /\ placeholder[h] = "failure"

\* a step of handler h that brings it to the awaited call `label`
Reaches(h, label) == pc[h] # label /\ pc'[h] = label

\* C3: on every exit path of a turn that started a progress indicator the
\* handler sets the stop signal, waits for the notifier to exit and only then
\* deletes the progress message; only a failed deletion leads to the edit to
\* the done marker; and neither failure is raised: the handler ends raising
\* only the exception that was already propagating.
C3_TeardownOnEveryExit ==
    /\ [](\A h \in Handlers :
            (pc[h] \in {"delete_placeholder", "edit_done"}
                \/ placeholder[h] \in {"deleted", "done"})
            => (stop_event[h] /\ npc[h] = "done"))
    /\ [][\A h \in Handlers :
            /\ (Reaches(h, "done") /\ Started(h)) =>
                  /\ pc[h] \in {"delete_placeholder", "edit_done"}
                  /\ stop_event'[h] /\ npc'[h] = "done"
                  /\ escaped'[h] = pending_exc[h]
                  /\ (pc[h] = "delete_placeholder" => placeholder'[h] = "deleted")
            /\ Reaches(h, "edit_done") =>
                  (pc[h] = "delete_placeholder" /\ placeholder'[h] = placeholder[h])
            /\ Reaches(h, "delete_placeholder") =>
                  (pc[h] = "await_notifier" /\ stop_event[h] /\ npc[h] = "done")
            /\ Reaches(h, "await_notifier") => stop_event'[h]]_vars

\* both the deletion and the edit failed after the apology could not be sent
C3_Witness ==
    \E h \in Handlers :
        /\ pc[h] = "done" /\ escaped[h] /\ stop_event[h] /\ npc[h] = "done"
        /\ placeholder[h] = "frame"
        /\ replies[h] = <<>>

\* C4: once the stop signal is set the notifier starts no further edit of
\* the progress message, and the notifier then terminates.
C4_NoEditAfterStop ==
    /\ [][\A h \in Handlers :
            stop_event[h] => ~(npc[h] # "editing" /\ npc'[h] = "editing")]_vars
    /\ \A h \in Handlers : stop_event[h] ~> (npc[h] = "done")

\* the stop signal was set while an edit was in flight, and the notifier left
\* its loop after it
C4_Witness ==
    \E h \in Handlers :
        /\ stop_event[h] /\ npc[h] = "done" /\ pc[h] = "await_notifier"
        /\ placeholder[h] = "frame" /\ response_text[h] = "null"

\* C5: with both backends configured, get_response returns None only after
\* both the primary and the secondary backend have been attempted.
C5_NullOnlyAfterBothBackends ==
    (/\ llm_pc = "returned" /\ llm_result = "null"
     /\ llm_cfg.deepseek_client /\ llm_cfg.openai_key)
        => ({"deepseek", "openai"} \subseteq Range(llm_attempts))

\* C6: no failure of the steps from the placeholder to the delivery leaves
\* the handler: a handler ends raising only when the apology itself could
\* not be sent.
C6_NoFailureEscapes ==
    \A h \in Handlers : (pc[h] = "done" /\ escaped[h]) => pending_exc[h]

\* a step of the voice handler h in a turn that has recognised no text
VoiceStepWithoutText(h) ==
    /\ ev[h].kind = "voice" /\ ev'[h] = ev[h]
    /\ pc'[h] # pc[h]
    /\ recognized_text'[h] # "text"

EmptyTranscript(h) == ev[h].kind = "voice" /\ recognized_text[h] = "empty"

NotUnderstood == Reply("not_understood", 0, "plain")

\* C7: a voice turn whose transcription is empty makes no LLM call, replies
\* only "could not understand", and leaves the session store as it was: when
\* it was the only event of the run, the store is still the empty one.
C7_EmptyTranscriptLeavesStoreAsItWas ==
    \A h \in Handlers :
        (EmptyTranscript(h) /\ pc[h] = "done" /\ events = 1) =>
            /\ llm_calls[h] = 0
            /\ Range(replies[h]) \subseteq {NotUnderstood}
            /\ user_history = <<>>

\* C7 as amended: such a turn makes no LLM call and appends no turn to any
\* history (its key gets an empty history if it had none), and it delivers at
\* most one reply: "could not understand", or the apology when the handler
\* raised after the transcription.
C7_EmptyTranscriptAppendsNoTurn ==
    /\ [][\A h \in Handlers :
            VoiceStepWithoutText(h) =>
                \A k \in Keys : History(user_history', k) = History(user_history, k)]_vars
    /\ [](\A h \in Handlers :
            EmptyTranscript(h) =>
                /\ llm_calls[h] = 0
                /\ replies[h] \in {<<>>, <<NotUnderstood>>, <<Reply("apology", 0, "plain")>>})

C7_Witness ==
    \E h \in Handlers :
        /\ EmptyTranscript(h) /\ pc[h] = "done"
        /\ replies[h] = <<NotUnderstood>>
        /\ Key(h) \in DOMAIN user_history /\ user_history[Key(h)] = <<>>

\* C8: every chunk split_safely returns is at most max_length long.
C8_ChunksWithinBound ==
    \A i \in 1..Len(parts) : Len(parts[i]) <= max_length

HasSentenceBoundary(s) ==
    \E i \in 1..(Len(s) - 1) : s[i] \in Punct /\ IsSpace(s[i + 1])

\* a text that takes the paragraph path, the sentence path and the hard cut
C8_Witness ==
    /\ Len(text) > max_length
    /\ \E p \in Range(SplitLines(text)) : p # <<>> /\ Len(p) <= max_length
    /\ \E p \in Range(SplitLines(text)) :
          /\ Len(p) > max_length
          /\ Len(SplitSentences(p)) > 1
          /\ \E t \in Range(SplitSentences(p)) : Len(t) > max_length
    /\ Len(parts) >= 3

\* the chunks ps, in order and with white space (or nothing) between them, make up s
RECURSIVE Rejoins(_, _)
Rejoins(ps, s) ==
    IF ps = <<>> THEN s = <<>>
    ELSE LET p == Head(ps)
         IN  /\ Len(p) <= Len(s)
             /\ Take(s, Len(p)) = p
             /\ IF Len(ps) = 1 THEN Len(p) = Len(s)
                ELSE \E g \in 0..(Len(s) - Len(p)) :
                        /\ \A k \in 1..g : IsSpace(s[Len(p) + k])
                        /\ Rejoins(Tail(ps), Drop(s, Len(p) + g))

\* C9: the chunks, rejoined in order with the separators that stood between
\* them, reconstruct the text: nothing dropped, altered, duplicated or added.
C9_ChunksReconstructText == Rejoins(parts, text)

CeilDiv(n, m) == (n + m - 1) \div m

\* C10: a text longer than max_length without line break and sentence
\* boundary gives exactly ceil(n/m) chunks, all but the last of length m.
C10_HardCutCount ==
    (Len(text) > max_length /\ NL \notin Range(text) /\ ~HasSentenceBoundary(text)) =>
        /\ Len(parts) = CeilDiv(Len(text), max_length)
        /\ \A i \in 1..Len(parts) : Len(parts[i]) <= max_length
        /\ \A i \in 1..(Len(parts) - 1) : Len(parts[i]) = max_length

\* the parts of h's answer that were delivered
Delivered(h) == Cardinality({j \in 1..Len(replies[h]) : replies[h][j].kind = "chunk"})

\* C11: the parts of an answer are delivered one after another in their
\* order: the replies of a turn start with parts 1..k, the send in flight is
\* that of part k+1, every part but the first carries the continuation marker
\* and every part but the last the "more follows" marker.
C11_ChunksInOrderWithMarkers ==
    \A h \in Handlers :
        LET k == Delivered(h)
        IN  /\ \A j \in 1..k :
                  /\ replies[h][j].kind = "chunk"
                  /\ replies[h][j].i = j
                  /\ replies[h][j].continuation = (j > 1)
                  /\ replies[h][j].more = (j < chunks[h].n)
            /\ pc[h] \in {"reply_html", "reply_plain"} =>
                  (chunks[h].i = k + 1 /\ chunks[h].i <= chunks[h].n)

\* an answer of two parts was delivered, both with their formatting
C11_Witness ==
    \E h \in Handlers :
        /\ pc[h] = "done"
        /\ replies[h] = <<ChunkReply(1, 2, "HTML"), ChunkReply(2, 2, "HTML")>>

\* C12: a part is resent as plain text only when Telegram rejected its
\* formatting.
C12_PlainResendOnlyAfterFormattingRejection ==
    \A h \in Handlers : pc[h] = "reply_plain" => chunks[h].rejection = "markup"

\* C12 as amended: a part is resent as plain text exactly when its HTML reply
\* raised TelegramBadRequest, whatever that rejection was about; it is that
\* part which is resent, once, and the part after it is first sent as HTML.
C12_PlainResendAfterBadRequest ==
    /\ [](\A h \in Handlers : pc[h] = "reply_plain" => chunks[h].rejection \in Rejections)
    /\ [][\A h \in Handlers :
            /\ Reaches(h, "reply_plain") =>
                  (pc[h] = "reply_html" /\ chunks'[h].i = chunks[h].i)
            /\ (pc[h] = "reply_plain" /\ pc'[h] # "reply_plain") =>
                  /\ pc'[h] \in {"reply_html", "await_notifier", "reply_apology"}
                  /\ pc'[h] = "reply_html" =>
                        (chunks'[h].i = chunks[h].i + 1 /\ Delivered(h)' = chunks[h].i)
                  /\ pc'[h] = "reply_apology" => replies'[h] = replies[h]]_vars

\* the first part fell back to plain text, the second went out as HTML
C12_Witness ==
    \E h \in Handlers :
        /\ pc[h] = "done"
        /\ replies[h] = <<ChunkReply(1, 2, "plain"), ChunkReply(2, 2, "HTML")>>

\* the turn holds a keyword, whatever the case of its letters
HasKeyword(prompt) ==
    \E kw \in SearchKeywords, i \in 1..Len(prompt) :
        /\ i + Len(kw) - 1 <= Len(prompt)
        /\ \A j \in 1..Len(kw) : Lower(prompt[i + j - 1]) = kw[j]

SearchWanted == HasKeyword(llm_call.prompt) /\ llm_cfg.google_search_client

\* C13: when the last user turn holds a freshness keyword in any case and a
\* search backend is configured, the search is made before the completion
\* call and what it found is in the prompt of that call; without a keyword
\* no search is made.
C13_SearchBeforeCompletion ==
    /\ [](~HasKeyword(llm_call.prompt) => llm_searches.called = 0)
    /\ [](llm_pc = "complete" =>
            /\ SearchWanted => llm_searches.called >= 1
            /\ llm_searches.in_prompt = llm_searches.found)
    /\ [][llm_attempts' # llm_attempts =>
            /\ llm_pc = "complete"
            /\ SearchWanted => llm_searches.called >= 1
            /\ llm_searches.in_prompt = llm_searches.found
            /\ llm_searches' = llm_searches]_vars

\* a keyword typed in capitals: one search, its results in the prompt of the
\* completion call that answered
C13_Witness ==
    /\ llm_call.prompt = <<"x", "K", "W">>
    /\ llm_pc = "returned" /\ llm_result = "text"
    /\ llm_searches.called = 1 /\ llm_searches.in_prompt
    /\ llm_attempts = <<"deepseek">>

\* C20: one call of get_response makes at most one search and records at
\* most one search usage event, whichever backends fail or are missing.
C20_AtMostOneSearchPerTurn ==
    llm_searches.called <= 1 /\ llm_searches.tracked <= 1

\* C14: while the completion call or the transcription call of a turn is in
\* flight, the other tasks can take their steps: the turn's progress notifier
\* that is due for its next frame can run, and a handler of another
\* conversation that waits for its search can go on.
C14_CallsDoNotStallTheLoop ==
    \A h \in Handlers :
        pc[h] \in {"llm_complete", "transcribe"} =>
            /\ npc[h] \in {"created"} \cup Sleeping => ENABLED notifier_run(h)
            /\ \A g \in Handlers \ {h} : pc[g] = "llm_search" => ENABLED search_done(g)

\* entries of hb_log that report how a regular signal ended
PingResults == {"ping_ok", "ping_fail"}

\* C15: in heartbeat_task every regular signal, failed or not, is followed by
\* exactly one interval sleep and the sleep by the next signal; a signal is
\* sent only after the start signal ended or after a sleep, never directly
\* after a failure; the start signal is sent at most once, first of all, and
\* its failure is followed by the first regular signal; the task ends only by
\* being cancelled.
C15_HeartbeatLoop ==
    /\ \A j \in 1..Len(hb_log) :
        /\ hb_log[j] = "start" => j = 1
        /\ hb_log[j] \in {"start_ok", "start_fail"} =>
               /\ j = 2 /\ hb_log[1] = "start"
               /\ j < Len(hb_log) /\ hb_log[j + 1] = "ping"
        /\ hb_log[j] = "ping" =>
               /\ j > 1
               /\ hb_log[j - 1] \in {"start_ok", "start_fail", "sleep"}
               /\ j < Len(hb_log) => hb_log[j + 1] \in PingResults
        /\ hb_log[j] \in PingResults =>
               /\ j > 1 /\ hb_log[j - 1] = "ping"
               /\ j < Len(hb_log) /\ hb_log[j + 1] = "sleep"
        /\ hb_log[j] = "sleep" =>
               /\ j > 1 /\ hb_log[j - 1] \in PingResults
               /\ j < Len(hb_log) => hb_log[j + 1] = "ping"
    /\ hb_pc \in {"returned", "cancelled"} => hb_cancel
    /\ (hb_pc = "sleep" /\ ~hb_cancel /\ blocking = 0 /\ Beats < MaxBeats)
           => ENABLED hb_wake

\* the start signal failed, the first regular signal failed, the task slept
\* and sent the next signal
C15_Witness ==
    hb_log = <<"start", "start_fail", "ping", "ping_fail", "sleep", "ping">>

\* main has ended
MainEnded == main_pc \in {"complete", "raised", "raised_cancelled"}

\* C16: when main shuts down with a heartbeat task, the task has ended
\* cancelled, main has logged the completed shutdown, and the cancellation
\* has not left main as an error.
C16_ShutdownCompletes ==
    (MainEnded /\ hb_pc # "none") =>
        /\ hb_pc = "cancelled"
        /\ main_logged
        /\ main_pc # "raised_cancelled"

\* C17: an edit of the placeholder that fails inside progress_notifier leaves
\* the task in its interval sleep and changes nothing of the handler that
\* awaits it (its position, its pending exception, its escaped exception);
\* after the sleep the task edits the next frame unless the stop signal is
\* set, and the task has ended only once the stop signal was set.
C17_NotifierSurvivesFailedEdit ==
    /\ [](\A h \in Handlers : npc[h] = "done" => stop_event[h])
    /\ [][\A h \in Handlers :
            /\ (npc[h] = "editing" /\ npc'[h] # "editing") =>
                   /\ npc'[h] \in Sleeping
                   /\ pc'[h] = pc[h]
                   /\ pending_exc'[h] = pending_exc[h]
                   /\ escaped'[h] = escaped[h]
            /\ (npc[h] \in Sleeping /\ npc'[h] # npc[h]) =>
                   npc'[h] = IF stop_event[h] THEN "done" ELSE "editing"]_vars

\* an edit has failed while the handler waits for the answer: the notifier
\* sleeps, the stop signal is not set, nothing is pending in the handler
C17_Witness ==
    \E h \in Handlers :
        /\ npc[h] = "sleeping_after_error"
        /\ ~stop_event[h]
        /\ pc[h] \notin {"idle", "done"}
        /\ ~pending_exc[h]
        /\ ~escaped[h]

\* C18: whatever goes wrong while the usage event of a turn is recorded (the
\* stats loaded at start lack the counters, a write of the stats file fails),
\* the turn is carried on: the invocation does not end by raising, and when
\* it ends it has called the LLM or delivered a reply.
C18_UsageFailureDoesNotFailTheTurn ==
    \A h \in Handlers :
        (storage = "faulty" /\ pc[h] = "done") =>
            /\ ~escaped[h]
            /\ llm_calls[h] > 0 \/ replies[h] # <<>>

\* distinct pairs of sampled ids have distinct keys
InjectiveOnSample ==
    \A u1 \in IdSample, c1 \in IdSample, u2 \in IdSample, c2 \in IdSample :
        ChatKey(u1, c1) = ChatKey(u2, c2) => (u1 = u2 /\ c1 = c2)

\* new is old with one turn appended
IsAppend(old, new) == Len(new) = Len(old) + 1 /\ SubSeq(new, 1, Len(old)) = old

\* C19: two distinct (user, chat) pairs never have the same key, and a step
\* that changes the history of a key is either a step of a text or voice turn
\* of that key, which appends one turn to it, or a start event, which leaves
\* it empty; the history of every other key is as it was.
C19_KeysIsolateHistories ==
    /\ []InjectiveOnSample
    /\ [][LET known == Keys \cup DOMAIN user_history \cup DOMAIN user_history'
          IN  \A k \in known :
                History(user_history', k) # History(user_history, k) =>
                    /\ \A j \in known \ {k} :
                           History(user_history', j) = History(user_history, j)
                    /\ \/ /\ pc' = pc
                          /\ events' = events + 1
                          /\ History(user_history', k) = <<>>
                       \/ \E h \in Handlers :
                          /\ pc[h] \notin {"idle", "done"}
                          /\ k = Key(h)
                          /\ IsAppend(History(user_history, k),
                                      History(user_history', k))]_vars

\* two conversations each hold turns of their own
C19_Witness ==
    \E k1 \in Keys, k2 \in Keys :
        /\ k1 # k2
        /\ Len(History(user_history, k1)) = 2
        /\ Len(History(user_history, k2)) = 1

\* the turns of role r among the first n turns of a history
CountRole(hist, n, r) == Cardinality({j \in 1..n : hist[j].role = r})

\* C21: in the history of every conversation key every prefix holds at least
\* as many user turns as assistant turns, so that no assistant turn is without
\* an earlier user turn.
C21_NoAssistantTurnWithoutUserTurn ==
    \A k \in DOMAIN user_history :
        \A n \in 0..Len(user_history[k]) :
            CountRole(user_history[k], n, "assistant") <= CountRole(user_history[k], n, "user")

\* the completion attempts made on backend b so far
Attempts(b) == Cardinality({j \in 1..Len(llm_attempts) : llm_attempts[j] = b})

\* C22: get_response makes at most one completion attempt per configured
\* backend and none on a backend that is not configured, and what it returns
\* is a text or None, whatever the keys and whichever attempts fail.
C22_BoundedBackendAttempts ==
    /\ Attempts("deepseek") <= (IF llm_cfg.deepseek_client THEN 1 ELSE 0)
    /\ Attempts("openai") <= (IF llm_cfg.openai_key THEN 1 ELSE 0)
    /\ llm_pc = "returned" => llm_result \in {"text", "null"}

\* C23: every recorded search stays recorded: the total_searches counter of
\* the stats file never decreases, whatever track_user_message and
\* track_search calls follow one another.
C23_RecordedSearchesStay ==
    [][("total_searches" \in DOMAIN stats_file /\ "total_searches" \in DOMAIN stats_file')
          => stats_file'.total_searches >= stats_file.total_searches]_vars

\* C24: a voice turn that transcribes finds in voice_<user>.ogg the audio it
\* downloaded itself: the file is there and no other turn of the user has
\* written it since.
C24_TurnTranscribesItsOwnAudio ==
    \A h \in Handlers : pc[h] = "transcribe" => audio[ev[h].user] = h

\* C25: split_safely returns at least one chunk for every text and bound, so
\* that send_long_message has a message to send, also for a text longer than
\* the bound that holds only line breaks or white space.
C25_SplitNeverEmpty == parts # <<>>

====
